---- MODULE Spec2Model ----
(***************************************************************************)
(* A model of vaopy.registry.vao: the RegistryService factory, the         *)
(* RegistryQuery builder (keywords, predicates, servicetype, waveband and  *)
(* the rendering of the GET URL) and RegistryResults.getvalue.             *)
(*                                                                         *)
(* Python strings are modelled as sequences of one-character strings, so   *)
(* that indexing, case conversion, splitting and URL-encoding are computed *)
(* character by character.  None, True and False are the one-element       *)
(* sequences below; no Python string of the model equals any of them.      *)
(***************************************************************************)
EXTENDS Integers, Sequences, FiniteSets, TLC

VARIABLES
    service_baseurl,  \* RegistryService._baseurl (set by DalService.__init__)
    _baseurl,         \* RegistryQuery._baseurl; None while no query exists
    _kw,              \* RegistryQuery._kw: list of keyword phrases
    _preds,           \* RegistryQuery._preds: list of SQL predicates
    _svctype,         \* RegistryQuery._svctype: None or a key of ALLOWED_CAPS
    _orKw,            \* RegistryQuery._orKw: the orKeywords constructor argument
    _param,           \* DalQuery._param: dictionary name -> value
    votable,          \* the table a RegistryResults wraps: a sequence of rows
    last,             \* name of the last operation called
    raised,           \* the exception the last operation raised, or "None"
    returned          \* the value the last operation returned, or None

vars == <<service_baseurl, _baseurl, _kw, _preds, _svctype, _orKw, _param,
          votable, last, raised, returned>>

query_vars == <<_baseurl, _kw, _preds, _svctype, _orKw, _param>>

(***************************************************************************)
(* Bounds of the model.                                                    *)
(***************************************************************************)
MaxTerms == 3   \* most keywords and predicates, together, of a query
MaxRows == 1    \* most rows of a result table

(***************************************************************************)
(* Python values and string helpers.                                       *)
(***************************************************************************)
None == <<"None">>
True == <<"True">>
False == <<"False">>

\* Python truth value of None, a bool, a string or a list
Truthy(v) == v # None /\ v # False /\ v # <<>>

\* arguments that may be a string, a list of strings or None (isinstance test)
Str(s) == [type |-> "str", val |-> s]
List(l) == [type |-> "list", val |-> l]
NoArg == [type |-> "NoneType", val |-> None]

Lowercase == <<"a","b","c","d","e","f","g","h","i","j","k","l","m","n","o","p","q","r","s","t","u","v","w","x","y","z">>
Uppercase == <<"A","B","C","D","E","F","G","H","I","J","K","L","M","N","O","P","Q","R","S","T","U","V","W","X","Y","Z">>

\* str.upper() and str.lower() of one character
upper(c) ==
    IF \E i \in 1..26 : Lowercase[i] = c
    THEN Uppercase[CHOOSE i \in 1..26 : Lowercase[i] = c]
    ELSE c

lower(c) ==
    IF \E i \in 1..26 : Uppercase[i] = c
    THEN Lowercase[CHOOSE i \in 1..26 : Uppercase[i] = c]
    ELSE c

\* x in l, for a Python list l
InList(l, x) == \E i \in 1..Len(l) : l[i] = x

\* list.remove(x) when x is in l: the first occurrence is removed
list_remove(l, x) ==
    LET i == CHOOSE n \in 1..Len(l) : l[n] = x /\ \A j \in 1..(n-1) : l[j] # x
    IN  SubSeq(l, 1, i-1) \o SubSeq(l, i+1, Len(l))

\* the concatenation of the strings ss[lo..hi]
RECURSIVE Concat(_, _, _)
Concat(ss, lo, hi) ==
    IF lo > hi THEN <<>>
    ELSE IF lo = hi THEN ss[lo]
    ELSE LET mid == (lo + hi) \div 2
         IN  Concat(ss, lo, mid) \o Concat(ss, mid+1, hi)

\* sep.join(ss)
join(sep, ss) ==
    Concat([i \in 1..(2*Len(ss) - 1) |-> IF i % 2 = 1 THEN ss[(i+1) \div 2] ELSE sep],
           1, 2*Len(ss) - 1)

\* the printable ASCII characters of the model, in runs of consecutive
\* character codes: <<code of the first character, the characters>>
AsciiRuns ==
    << <<32, <<" ","!">> >>,
       <<35, <<"#","$","%","&","'","(",")","*","+",",","-",".","/","0","1","2","3","4","5","6","7","8","9",":",";","<","=",">","?","@","A","B","C","D","E","F","G","H","I","J","K","L","M","N","O","P","Q","R","S","T","U","V","W","X","Y","Z","[">> >>,
       <<93, <<"]","^","_">> >>,
       <<97, <<"a","b","c","d","e","f","g","h","i","j","k","l","m","n","o","p","q","r","s","t","u","v","w","x","y","z","{","|","}","~">> >> >>
Chars == UNION {{AsciiRuns[r][2][i] : i \in 1..Len(AsciiRuns[r][2])} : r \in 1..Len(AsciiRuns)}
HexDigits == <<"0","1","2","3","4","5","6","7","8","9","A","B","C","D","E","F">>

\* ord(c)
ord(c) ==
    LET r == CHOOSE n \in 1..Len(AsciiRuns) :
                 \E i \in 1..Len(AsciiRuns[n][2]) : AsciiRuns[n][2][i] = c
        i == CHOOSE n \in 1..Len(AsciiRuns[r][2]) : AsciiRuns[r][2][n] = c
    IN  AsciiRuns[r][1] + i - 1

\* urllib's always_safe characters
always_safe ==
    {Lowercase[i] : i \in 1..26} \cup {Uppercase[i] : i \in 1..26}
        \cup {HexDigits[i] : i \in 1..10} \cup {"_", ".", "-"}

\* urllib.quote_plus of one character: safe characters are kept, a space
\* becomes '+', anything else becomes '%XX'
quote_char ==
    [c \in Chars |->
        IF c \in always_safe THEN <<c>>
        ELSE IF c = " " THEN <<"+">>
        ELSE <<"%", HexDigits[(ord(c) \div 16) + 1], HexDigits[(ord(c) % 16) + 1]>>]

\* urllib.quote_plus(s)
quote_plus(s) == Concat([i \in 1..Len(s) |-> quote_char[s[i]]], 1, Len(s))

(***************************************************************************)
(* DalService and DalQuery (vaopy.dal.query): base URL and parameter map.  *)
(***************************************************************************)
EmptyDict == [k \in {} |-> None]

\* DalQuery.setparam / unsetparam / getparam on the dictionary d
setparam(d, name, val) == [k \in DOMAIN d \cup {name} |-> IF k = name THEN val ELSE d[k]]
unsetparam(d, name) == [k \in DOMAIN d \ {name} |-> d[k]]
getparam(d, name) == IF name \in DOMAIN d THEN d[name] ELSE None

\* DalQuery.paramnames(): the keys of the dictionary, in its iteration order
RECURSIVE keys_of(_)
keys_of(S) == IF S = {} THEN <<>> ELSE LET k == CHOOSE x \in S : TRUE IN <<k>> \o keys_of(S \ {k})
paramnames(d) == keys_of(DOMAIN d)

\* DalQuery._paramtostr(value)
_paramtostr(pval) == quote_plus(pval)

(***************************************************************************)
(* RegistryService                                                         *)
(***************************************************************************)
STSCI_REGISTRY_BASEURL == <<"h","t","t","p",":","/","/","v","a","o",".","s","t","s","c","i",".","e","d","u","/","d","i","r","e","c","t","o","r","y","/","N","V","O","R","e","g","I","n","t",".","a","s","m","x","/">>

\* str.endswith(suffix)
endswith(s, suffix) ==
    /\ Len(suffix) <= Len(s)
    /\ SubSeq(s, Len(s) - Len(suffix) + 1, Len(s)) = suffix

\* RegistryService.__init__(baseurl): the base URL DalService.__init__ stores
RegistryService_init(baseurl) ==
    LET b == IF ~Truthy(baseurl) THEN STSCI_REGISTRY_BASEURL ELSE baseurl
    IN  IF ~endswith(b, <<"/">>) THEN b \o <<"/">> ELSE b

(***************************************************************************)
(* RegistryQuery: class constants                                          *)
(***************************************************************************)
SERVICE_NAME == <<"V","O","T","C","a","p","B","a","n","d","P","r","e","d","O","p","t">>
RESULTSET_TYPE_ARG == <<"V","O","T","S","t","y","l","e","O","p","t","i","o","n","=","2">>

ALLOWED_WAVEBANDS ==
    << <<"R","a","d","i","o">>, <<"M","i","l","l","i","m","e","t","e","r">>, <<"I","n","f","r","a","r","e","d">>, <<"O","p","t","i","c","a","l">>, <<"U","V">>,
       <<"E","U","V">>, <<"X","-","r","a","y">>, <<"G","a","m","m","a","-","r","a","y">> >>

\* a Python dict literal, given as its <<key, value>> items
dict(items) ==
    [k \in {it[1] : it \in items} |-> (CHOOSE it \in items : it[1] = k)[2]]

WAVEBAND_SYN ==
    dict({ << <<"i","r">>, <<"I","n","f","r","a","r","e","d">> >>,
           << <<"I","R">>, <<"I","n","f","r","a","r","e","d">> >>,
           << <<"u","v">>, <<"U","V">> >>,
           << <<"e","u","v">>, <<"E","U","V">> >> })

ALLOWED_CAPS ==
    dict({ << <<"t","a","b","l","e">>, <<"C","o","n","e","S","e","a","r","c","h">> >>,
           << <<"c","a","t","a","l","o","g">>, <<"C","o","n","e","S","e","a","r","c","h">> >>,
           << <<"s","c","s">>, <<"C","o","n","e","S","e","a","r","c","h">> >>,
           << <<"c","o","n","e","s","e","a","r","c","h">>, <<"C","o","n","e","S","e","a","r","c","h">> >>,
           << <<"i","m","a","g","e">>, <<"S","i","m","p","l","e","I","m","a","g","e","A","c","c","e","s","s">> >>,
           << <<"s","i","a">>, <<"S","i","m","p","l","e","I","m","a","g","e","A","c","c","e","s","s">> >>,
           << <<"s","p","e","c","t","r","a">>, <<"S","i","m","p","l","e","S","p","e","c","t","r","a","l","A","c","c","e","s","s">> >>,
           << <<"s","p","e","c","t","r","u","m">>, <<"S","i","m","p","l","e","S","p","e","c","t","r","a","l","A","c","c","e","s","s">> >>,
           << <<"s","s","a">>, <<"S","i","m","p","l","e","S","p","e","c","t","r","a","l","A","c","c","e","s","s">> >>,
           << <<"s","s","a","p">>, <<"S","i","m","p","l","e","S","p","e","c","t","r","a","l","A","c","c","e","s","s">> >>,
           << <<"l","i","n","e">>, <<"S","i","m","p","l","e","L","i","n","e","A","c","c","e","s","s">> >>,
           << <<"s","l","a">>, <<"S","i","m","p","l","e","L","i","n","e","A","c","c","e","s","s">> >>,
           << <<"s","l","a","p">>, <<"S","i","m","p","l","e","L","i","n","e","A","c","c","e","s","s">> >>,
           << <<"t","a","p">>, <<"T","a","b","l","e","A","c","c","e","s","s">> >>,
           << <<"d","a","t","a","b","a","s","e">>, <<"T","a","b","l","e","A","c","c","e","s","s">> >>,
           << <<"t","a","b","l","e","A","c","c","e","s","s">>, <<"T","a","b","l","e","A","c","c","e","s","s">> >>,
           << <<"s","i","m","p","l","e","I","m","a","g","e","A","c","c","e","s","s">>, <<"S","i","m","p","l","e","I","m","a","g","e","A","c","c","e","s","s">> >>,
           << <<"s","i","m","p","l","e","L","i","n","e","A","c","c","e","s","s">>, <<"S","i","m","p","l","e","L","i","n","e","A","c","c","e","s","s">> >>,
           << <<"s","i","m","p","l","e","S","p","e","c","t","r","a","l","A","c","c","e","s","s">>, <<"S","i","m","p","l","e","S","p","e","c","t","r","a","l","A","c","c","e","s","s">> >> })

(***************************************************************************)
(* RegistryQuery: the methods, as functions of the fields they read.       *)
(* A method that can raise returns a record with the exception ("None"     *)
(* when it returns normally) and the field as the call leaves it.          *)
(***************************************************************************)

\* RegistryQuery.__init__(orKeywords, baseurl): the _baseurl it stores
RegistryQuery_init_baseurl(orKeywords, baseurl) ==
    IF ~Truthy(baseurl) THEN STSCI_REGISTRY_BASEURL ELSE baseurl

\* RegistryQuery.__init__(orKeywords, baseurl): the _orKw it stores
RegistryQuery_init_orKw(orKeywords, baseurl) == orKeywords

\* the list a keywords argument stands for: a single string is one phrase
as_list(keywords) ==
    IF keywords.type = "str" THEN <<keywords.val>> ELSE keywords.val

\* addkeywords(keywords): the new _kw
addkeywords(kw, keywords) == kw \o as_list(keywords)

\* the loop of removekeywords: list.remove raises ValueError at the first
\* phrase that is absent, after the phrases before it have been removed
RECURSIVE remove_each(_, _)
remove_each(kw, phrases) ==
    IF phrases = <<>> THEN [raised |-> "None", kw |-> kw]
    ELSE IF ~InList(kw, Head(phrases)) THEN [raised |-> "ValueError", kw |-> kw]
    ELSE remove_each(list_remove(kw, Head(phrases)), Tail(phrases))

\* a removekeywords that removes every occurrence of each phrase
removekeywords_every(kw, keywords) ==
    LET r == remove_each(kw, as_list(keywords))
    IN  [raised |-> r.raised,
         kw |-> IF r.raised = "None"
                THEN SelectSeq(kw, LAMBDA e : ~InList(as_list(keywords), e))
                ELSE r.kw]

\* removekeywords(keywords)
removekeywords(kw, keywords) == remove_each(kw, as_list(keywords))

\* removepredicate(pred)
removepredicate(preds, pred) ==
    IF InList(preds, pred)
    THEN [raised |-> "None", preds |-> list_remove(preds, pred)]
    ELSE [raised |-> "ValueError", preds |-> preds]

\* a servicetype setter that stores the value without looking it up
servicetype_setter_unchecked(svctype, val) ==
    IF ~Truthy(val) THEN [raised |-> "ValueError", svctype |-> svctype]
    ELSE IF Len(val) < 2 THEN [raised |-> "NameError", svctype |-> svctype]
    ELSE [raised |-> "None",
          svctype |-> IF upper(val[1]) = val[1]
                      THEN <<lower(val[1])>> \o Tail(val)
                      ELSE val]

\* the servicetype setter: svctype is the stored value, val the one assigned
servicetype_setter(svctype, val) ==
    IF ~Truthy(val) THEN [raised |-> "ValueError", svctype |-> svctype]
    ELSE IF Len(val) < 2
    THEN \* the message names serviceType, which is not defined
         [raised |-> "NameError", svctype |-> svctype]
    ELSE LET v == IF upper(val[1]) = val[1]
                  THEN <<lower(val[1])>> \o Tail(val)
                  ELSE val
         IN  IF v \notin DOMAIN ALLOWED_CAPS
             THEN [raised |-> "ValueError", svctype |-> svctype]
             ELSE [raised |-> "None", svctype |-> v]

\* the waveband setter: param is the parameter dictionary, band the value
\* assigned, None or a string (a value of another type raises ValueError)
waveband_setter(param, band) ==
    IF band = None THEN [raised |-> "None", param |-> unsetparam(param, <<"w","a","v","e","b","a","n","d">>)]
    ELSE IF ~Truthy(band) THEN [raised |-> "ValueError", param |-> param]
    ELSE IF Len(band) < 2 THEN [raised |-> "ValueError", param |-> param]
    ELSE LET syn == IF band \in DOMAIN WAVEBAND_SYN THEN WAVEBAND_SYN[band] ELSE band
             cap == <<upper(syn[1])>> \o Tail(syn)
         IN  IF ~InList(ALLOWED_WAVEBANDS, cap)
             THEN [raised |-> "ValueError", param |-> param]
             ELSE [raised |-> "None", param |-> setparam(param, <<"w","a","v","e","b","a","n","d">>, cap)]

\* a _toCapConst that passes the service type through
_toCapConst_unmapped(stype) == stype

\* _toCapConst(stype)
_toCapConst(stype) == ALLOWED_CAPS[stype]

textcols ==
    << <<"T","i","t","l","e">>, <<"S","h","o","r","t","N","a","m","e">>, <<"I","d","e","n","t","i","f","i","e","r">>,
       <<"[","c","o","n","t","e","n","t","/","s","u","b","j","e","c","t","]">>, <<"[","c","u","r","a","t","i","o","n","/","p","u","b","l","i","s","h","e","r","]">>,
       <<"[","c","o","n","t","e","n","t","/","d","e","s","c","r","i","p","t","i","o","n","]">>, <<"[","@","x","s","i","_","t","y","p","e","]">>,
       <<"[","c","a","p","a","b","i","l","i","t","y","/","@","x","s","i","_","t","y","p","e","]">> >>

\* a keywords_to_predicate that ORs the keywords whatever ored is
keywords_to_predicate_ored(keywords, ored) ==
    LET keyconst(kw) ==
            [c \in 1..Len(textcols) |-> textcols[c] \o <<" ","L","I","K","E"," ","'","%">> \o kw \o <<"%","'">>]
        const == [k \in 1..Len(keywords) |-> join(<<" ","O","R"," ">>, keyconst(keywords[k]))]
    IN  <<"(">> \o join(<<")"," ","O","R"," ","(">>, const) \o <<")">>

\* keywords_to_predicate(keywords, ored)
keywords_to_predicate(keywords, ored) ==
    LET conjunction == IF Truthy(ored) THEN <<")"," ","O","R"," ","(">> ELSE <<")"," ","A","N","D"," ","(">>
        keyconst(kw) ==
            [c \in 1..Len(textcols) |-> textcols[c] \o <<" ","L","I","K","E"," ","'","%">> \o kw \o <<"%","'">>]
        const == [k \in 1..Len(keywords) |-> join(<<" ","O","R"," ">>, keyconst(keywords[k]))]
    IN  <<"(">> \o join(conjunction, const) \o <<")">>

\* getQueryURL(): the arguments for the stored parameters ("this will add
\* waveband")
params_arg(param) ==
    LET names == paramnames(param)
    IN  IF Len(names) > 0
        THEN <<"&">> \o join(<<"&">>,
                 [i \in 1..Len(names) |->
                     names[i] \o <<"=">> \o _paramtostr(param[names[i]])])
        ELSE <<>>

\* getQueryURL(): the capability argument
capability_arg(svctype) ==
    IF Truthy(svctype)
    THEN <<"&","c","a","p","a","b","i","l","i","t","y","=">> \o _toCapConst(svctype)
    ELSE <<"&","c","a","p","a","b","i","l","i","t","y","=">>

\* a predicate argument with the keyword predicate put first
predicate_arg_kwfirst(preds, kw, orKw) ==
    LET allpreds == IF Truthy(kw)
                    THEN <<keywords_to_predicate(kw, orKw)>> \o preds
                    ELSE preds
    IN  IF Truthy(allpreds)
        THEN <<"&","p","r","e","d","i","c","a","t","e","=">> \o
             quote_plus(join(<<" ","A","N","D"," ">>,
                 [i \in 1..Len(allpreds) |-> <<"(">> \o allpreds[i] \o <<")">>]))
        ELSE <<"&","p","r","e","d","i","c","a","t","e","=","1">>

\* getQueryURL(): the predicate argument
predicate_arg(preds, kw, orKw) ==
    LET allpreds == IF Truthy(kw)
                    THEN Append(preds, keywords_to_predicate(kw, orKw))
                    ELSE preds
    IN  IF Truthy(allpreds)
        THEN <<"&","p","r","e","d","i","c","a","t","e","=">> \o
             quote_plus(join(<<" ","A","N","D"," ">>,
                 [i \in 1..Len(allpreds) |-> <<"(">> \o allpreds[i] \o <<")">>]))
        ELSE <<"&","p","r","e","d","i","c","a","t","e","=","1">>

\* a getQueryURL that appends the keyword predicate to _preds itself
getQueryURL_preds_aliased(preds, kw, orKw) ==
    IF Truthy(kw) THEN Append(preds, keywords_to_predicate(kw, orKw)) ELSE preds

\* getQueryURL(): the _preds it leaves.  preds = list(self._preds) is a
\* copy, and self.keywords a copy of _kw: the keyword predicate is appended
\* to the copy, and the list the query holds is not touched
getQueryURL_preds(preds, kw, orKw) == preds

\* getQueryURL() of a query with the given fields
QueryURL(baseurl, param, svctype, preds, kw, orKw) ==
    baseurl \o SERVICE_NAME \o <<"?">> \o RESULTSET_TYPE_ARG
        \o params_arg(param) \o capability_arg(svctype) \o predicate_arg(preds, kw, orKw)

\* getQueryURL() of the query of the state
getQueryURL == QueryURL(_baseurl, _param, _svctype, _preds, _kw, _orKw)

\* createQuery(keywords, servicetype, waveband, sqlpred): the query it builds,
\* as a record of its fields, with the exception a setter raised
createQuery(keywords, servicetype, waveband, sqlpred) ==
    LET base == RegistryQuery_init_baseurl(service_baseurl, None)
        orkw == RegistryQuery_init_orKw(service_baseurl, None)
        preds == IF Truthy(sqlpred) THEN <<sqlpred>> ELSE <<>>
        wb == IF Truthy(waveband) THEN waveband_setter(EmptyDict, waveband)
              ELSE [raised |-> "None", param |-> EmptyDict]
        st == IF Truthy(servicetype) THEN servicetype_setter(None, servicetype)
              ELSE [raised |-> "None", svctype |-> None]
        kw == IF Truthy(keywords.val) THEN addkeywords(<<>>, keywords) ELSE <<>>
    IN  [raised |-> IF wb.raised # "None" THEN wb.raised ELSE st.raised,
         baseurl |-> base, orKw |-> orkw, preds |-> preds,
         param |-> wb.param, svctype |-> st.svctype, kw |-> kw]

(***************************************************************************)
(* RegistryResults                                                         *)
(***************************************************************************)
_strarraycols == <<"waveband", "subject", "type", "contentLevel">>

\* the column names of the result tables of the model
Columns == {"waveband", "type", "title"}

\* DalResults.getvalue(name, index), as its documentation states it: the
\* exceptions it can raise for this name and index ({} when it returns)
DalResults_getvalue_raises(table, name, index) ==
    (IF index < 0 \/ index >= Len(table) THEN {"IndexError"} ELSE {})
        \cup (IF name \notin Columns THEN {"KeyError"} ELSE {})

\* str.split(sep) for a one-character separator
RECURSIVE split(_, _)
split(s, sep) ==
    IF \A i \in 1..Len(s) : s[i] # sep THEN <<s>>
    ELSE LET i == CHOOSE n \in 1..Len(s) : s[n] = sep /\ \A j \in 1..(n-1) : s[j] # sep
         IN  <<SubSeq(s, 1, i-1)>> \o split(SubSeq(s, i+1, Len(s)), sep)

\* RegistryResults.getvalue(name, index) once DalResults.getvalue has
\* returned the cell out
getvalue(name, out) ==
    IF ~InList(_strarraycols, name) THEN [raised |-> "None", returned |-> out]
    ELSE IF out = <<>> THEN [raised |-> "IndexError", returned |-> None]  \* out[0]
    ELSE LET out1 == IF out[1] = "#" THEN Tail(out) ELSE out
         IN  IF out1 = <<>> THEN [raised |-> "IndexError", returned |-> None]  \* out[-1]
             ELSE LET out2 == IF out1[Len(out1)] = "#"
                              THEN SubSeq(out1, 1, Len(out1) - 1)
                              ELSE out1
                  IN  [raised |-> "None", returned |-> split(out2, "#")]

(***************************************************************************)
(* The inputs the operations are called with.                              *)
(***************************************************************************)
\* the inputs of the service and query operations: the base URLs given to
\* RegistryService and to RegistryQuery, the keyword phrases, the SQL
\* predicates and the values assigned to servicetype and to waveband
Inputs(servicebaseurls, querybaseurls, phrases, sqlpreds, servicetypes, wavebands) ==
    [servicebaseurls |-> servicebaseurls, querybaseurls |-> querybaseurls,
     phrases |-> phrases, sqlpreds |-> sqlpreds,
     servicetypes |-> servicetypes, wavebands |-> wavebands]

\* the service-type and waveband vocabulary, valid and invalid, on a query
\* of few terms
VocabularyInputs ==
    Inputs({<<"h","t","t","p",":","/","/","r">>}, {None}, {<<"b","l","u","e">>}, {<<"&","c","a","p","a","b","i","l","i","t","y","=">>},
           {<<>>, <<"x">>, <<"x","x">>, <<"C","o","n","e","S","e","a","r","c","h">>, <<"S","i","m","p","l","e","I","m","a","g","e","A","c","c","e","s","s">>,
            <<"S","i","m","p","l","e","S","p","e","c","t","r","a","l","A","c","c","e","s","s">>, <<"T","a","b","l","e","A","c","c","e","s","s">>, <<"t","a","b","l","e">>, <<"t","a","p">>,
            <<"d","a","t","a","b","a","s","e">>, <<"s","c","s">>, <<"s","i","a">>},
           {None, <<>>, <<"x">>, <<"I","r">>, <<"i","r">>, <<"o","p","t","i","c","a","l">>})

\* several keywords and predicates, on a query of few service types
TermInputs ==
    Inputs({<<"h","t","t","p",":","/","/","r">>}, {None}, {<<"b","l","u","e">>, <<"x"," ","y">>}, {<<"a","=","1">>, <<"&","c","a","p","a","b","i","l","i","t","y","=">>},
           {<<"x">>, <<"s","c","s">>}, {None, <<"i","r">>})

\* services and queries with and without a base URL of their own
ServiceInputs ==
    Inputs({None, <<"h","t","t","p",":","/","/","r">>, <<"h","t","t","p",":","/","/","s","/">>}, {None, <<"h","t","t","p",":","/","/","q","/">>},
           {<<"b","l","u","e">>}, {<<"a","=","1">>}, {<<"x","x">>, <<"s","c","s">>}, {None, <<"i","r">>})

\* the keywords arguments: one phrase, or a list of two
KeywordArgs(phrases) ==
    {Str(p) : p \in phrases} \cup {List(<<p, q>>) : p \in phrases, q \in phrases}

\* what executeVotable() does: it returns a table or raises one of the errors
\* execute() documents
Outcomes == {"ok", "RegistryServiceError", "RegistryQueryError"}
Cells == {<<>>, <<"#">>, <<"#","O","p","t","i","c","a","l","#","I","n","f","r","a","r","e","d","#">>, <<"a","#","b">>}
ColumnNames == Columns \cup {"nosuchcolumn"}

\* the result tables of at most MaxRows rows
Tables == UNION {[1..n -> [Columns -> Cells]] : n \in 0..MaxRows}

(***************************************************************************)
(* Initial states                                                          *)
(***************************************************************************)
NoQuery ==
    /\ _baseurl = None
    /\ _kw = <<>>
    /\ _preds = <<>>
    /\ _svctype = None
    /\ _orKw = None
    /\ _param = EmptyDict

\* a RegistryService has been constructed; the caller holds no query yet
InitService(in) ==
    /\ service_baseurl \in {RegistryService_init(b) : b \in in.servicebaseurls}
    /\ NoQuery
    /\ votable = <<>>
    /\ last = "RegistryService"
    /\ raised = "None"
    /\ returned = None

\* a RegistryResults has been constructed over a table the service returned
InitResults ==
    /\ service_baseurl = RegistryService_init(None)
    /\ NoQuery
    /\ votable \in Tables
    /\ last = "RegistryResults"
    /\ raised = "None"
    /\ returned = None

(***************************************************************************)
(* Actions                                                                 *)
(***************************************************************************)
HasQuery == _baseurl # None

\* what a call leaves behind: its name, its exception and its return value
Call(name, exc, ret) ==
    /\ last' = name
    /\ raised' = exc
    /\ returned' = ret

\* RegistryQuery(orKeywords, baseurl)
NewQuery(orKeywords, baseurl) ==
    /\ ~HasQuery
    /\ _baseurl' = RegistryQuery_init_baseurl(orKeywords, baseurl)
    /\ _orKw' = RegistryQuery_init_orKw(orKeywords, baseurl)
    /\ _kw' = <<>>
    /\ _preds' = <<>>
    /\ _svctype' = None
    /\ _param' = EmptyDict
    /\ Call("RegistryQuery", "None", None)
    /\ UNCHANGED <<service_baseurl, votable>>

\* RegistryService.createQuery(keywords, servicetype, waveband, sqlpred)
CreateQuery(keywords, servicetype, waveband, sqlpred) ==
    /\ ~HasQuery
    /\ LET q == createQuery(keywords, servicetype, waveband, sqlpred)
       IN  /\ Len(q.kw) + Len(q.preds) <= MaxTerms
           /\ IF q.raised # "None"
              THEN /\ UNCHANGED query_vars
                   /\ Call("createQuery", q.raised, None)
              ELSE /\ _baseurl' = q.baseurl
                   /\ _orKw' = q.orKw
                   /\ _kw' = q.kw
                   /\ _preds' = q.preds
                   /\ _svctype' = q.svctype
                   /\ _param' = q.param
                   /\ Call("createQuery", "None", None)
    /\ UNCHANGED <<service_baseurl, votable>>

\* RegistryService.search(keywords, servicetype, waveband, sqlpred): the
\* query is created, executed and dropped; the results carry its URL
Search(keywords, servicetype, waveband, sqlpred, outcome) ==
    /\ ~HasQuery
    /\ LET q == createQuery(keywords, servicetype, waveband, sqlpred)
       IN  /\ Len(q.kw) + Len(q.preds) <= MaxTerms
           /\ IF q.raised # "None" THEN Call("search", q.raised, None)
              ELSE IF outcome # "ok" THEN Call("search", outcome, None)
              ELSE Call("search", "None",
                        QueryURL(q.baseurl, q.param, q.svctype, q.preds, q.kw, q.orKw))
    /\ UNCHANGED <<service_baseurl, votable>>
    /\ UNCHANGED query_vars

\* addkeywords(keywords)
AddKeywords(keywords) ==
    /\ HasQuery
    /\ Len(addkeywords(_kw, keywords)) + Len(_preds) <= MaxTerms
    /\ _kw' = addkeywords(_kw, keywords)
    /\ Call("addkeywords", "None", None)
    /\ UNCHANGED <<service_baseurl, votable, _baseurl, _preds, _svctype, _orKw, _param>>

\* removekeywords(keywords)
RemoveKeywords(keywords) ==
    /\ HasQuery
    /\ LET r == removekeywords(_kw, keywords)
       IN  /\ _kw' = r.kw
           /\ Call("removekeywords", r.raised, None)
    /\ UNCHANGED <<service_baseurl, votable, _baseurl, _preds, _svctype, _orKw, _param>>

\* clearkeywords()
ClearKeywords ==
    /\ HasQuery
    /\ _kw' = <<>>
    /\ Call("clearkeywords", "None", None)
    /\ UNCHANGED <<service_baseurl, votable, _baseurl, _preds, _svctype, _orKw, _param>>

\* or_keywords(ored)
OrKeywords(ored) ==
    /\ HasQuery
    /\ _orKw' = ored
    /\ Call("or_keywords", "None", None)
    /\ UNCHANGED <<service_baseurl, votable, _baseurl, _kw, _preds, _svctype, _param>>

\* servicetype = val
SetServicetype(val) ==
    /\ HasQuery
    /\ LET r == servicetype_setter(_svctype, val)
       IN  /\ _svctype' = r.svctype
           /\ Call("servicetype.setter", r.raised, None)
    /\ UNCHANGED <<service_baseurl, votable, _baseurl, _kw, _preds, _orKw, _param>>

\* del servicetype
DelServicetype ==
    /\ HasQuery
    /\ _svctype' = None
    /\ Call("servicetype.deleter", "None", None)
    /\ UNCHANGED <<service_baseurl, votable, _baseurl, _kw, _preds, _orKw, _param>>

\* waveband = band
SetWaveband(band) ==
    /\ HasQuery
    /\ LET r == waveband_setter(_param, band)
       IN  /\ _param' = r.param
           /\ Call("waveband.setter", r.raised, None)
    /\ UNCHANGED <<service_baseurl, votable, _baseurl, _kw, _preds, _svctype, _orKw>>

\* del waveband
DelWaveband ==
    /\ HasQuery
    /\ _param' = unsetparam(_param, <<"w","a","v","e","b","a","n","d">>)
    /\ Call("waveband.deleter", "None", None)
    /\ UNCHANGED <<service_baseurl, votable, _baseurl, _kw, _preds, _svctype, _orKw>>

\* addpredicate(pred)
AddPredicate(pred) ==
    /\ HasQuery
    /\ Len(_kw) + Len(_preds) < MaxTerms
    /\ _preds' = Append(_preds, pred)
    /\ Call("addpredicate", "None", None)
    /\ UNCHANGED <<service_baseurl, votable, _baseurl, _kw, _svctype, _orKw, _param>>

\* removepredicate(pred)
RemovePredicate(pred) ==
    /\ HasQuery
    /\ LET r == removepredicate(_preds, pred)
       IN  /\ _preds' = r.preds
           /\ Call("removepredicate", r.raised, None)
    /\ UNCHANGED <<service_baseurl, votable, _baseurl, _kw, _svctype, _orKw, _param>>

\* clearpredicates()
ClearPredicates ==
    /\ HasQuery
    /\ _preds' = <<>>
    /\ Call("clearpredicates", "None", None)
    /\ UNCHANGED <<service_baseurl, votable, _baseurl, _kw, _svctype, _orKw, _param>>

\* getQueryURL()
GetQueryURL ==
    /\ HasQuery
    /\ Call("getQueryURL", "None", getQueryURL)
    /\ _preds' = getQueryURL_preds(_preds, _kw, _orKw)
    /\ UNCHANGED <<service_baseurl, votable, _baseurl, _kw, _svctype, _orKw, _param>>

\* execute(): executeVotable() either raises or returns the service's
\* table, and the results are built with the URL of the query; the URL is
\* rendered whatever the outcome
Execute(outcome) ==
    /\ HasQuery
    /\ IF outcome # "ok" THEN Call("execute", outcome, None)
       ELSE Call("execute", "None", getQueryURL)
    /\ _preds' = getQueryURL_preds(_preds, _kw, _orKw)
    /\ UNCHANGED <<service_baseurl, votable, _baseurl, _kw, _svctype, _orKw, _param>>

\* RegistryResults.getvalue(name, index)
GetValue(name, index) ==
    /\ last \in {"RegistryResults", "getvalue"}
    /\ LET excs == DalResults_getvalue_raises(votable, name, index)
       IN  IF excs # {}
           THEN \E e \in excs : Call("getvalue", e, None)
           ELSE LET r == getvalue(name, votable[index + 1][name])
                IN  Call("getvalue", r.raised, r.returned)
    /\ UNCHANGED <<service_baseurl, votable>>
    /\ UNCHANGED query_vars

(***************************************************************************)
(* Specifications                                                          *)
(***************************************************************************)
NextQuery(in) ==
    \/ \E o \in {True, False}, b \in in.querybaseurls : NewQuery(o, b)
    \/ \E k \in KeywordArgs(in.phrases) \cup {NoArg}, s \in in.servicetypes,
          w \in in.wavebands, p \in in.sqlpreds \cup {None} : CreateQuery(k, s, w, p)
    \/ \E k \in KeywordArgs(in.phrases) \cup {NoArg}, s \in in.servicetypes,
          w \in in.wavebands, p \in in.sqlpreds \cup {None}, o \in Outcomes :
              Search(k, s, w, p, o)
    \/ \E k \in KeywordArgs(in.phrases) : AddKeywords(k)
    \/ \E k \in KeywordArgs(in.phrases) : RemoveKeywords(k)
    \/ ClearKeywords
    \/ \E o \in {True, False} : OrKeywords(o)
    \/ \E s \in in.servicetypes : SetServicetype(s)
    \/ DelServicetype
    \/ \E w \in in.wavebands : SetWaveband(w)
    \/ DelWaveband
    \/ \E p \in in.sqlpreds : AddPredicate(p)
    \/ \E p \in in.sqlpreds : RemovePredicate(p)
    \/ ClearPredicates
    \/ GetQueryURL
    \/ \E o \in Outcomes : Execute(o)

\* a query and the vocabulary of its servicetype and waveband
Init == InitService(VocabularyInputs)
Next == NextQuery(VocabularyInputs)
Spec == Init /\ [][Next]_vars

\* a query and its keywords and predicates
InitTerms == InitService(TermInputs)
NextTerms == NextQuery(TermInputs)
SpecTerms == InitTerms /\ [][NextTerms]_vars

\* services, and the queries made from them and made directly
InitServices == InitService(ServiceInputs)
NextServices == NextQuery(ServiceInputs)
SpecService == InitServices /\ [][NextServices]_vars

NextResults == \E n \in ColumnNames, i \in -1..MaxRows : GetValue(n, i)

\* a result set and the reading of its cells
SpecResults == InitResults /\ [][NextResults]_vars

(***************************************************************************)
(* Properties                                                              *)
(***************************************************************************)

\* the number of times x occurs in the list l
Count(l, x) == Cardinality({i \in 1..Len(l) : l[i] = x})

\* str.startswith(prefix)
startswith(s, prefix) ==
    /\ Len(prefix) <= Len(s)
    /\ SubSeq(s, 1, Len(prefix)) = prefix

\* the positions at which pat occurs in s
Occurrences(s, pat) ==
    {i \in 1..(Len(s) - Len(pat) + 1) : SubSeq(s, i, i + Len(pat) - 1) = pat}

\* the value of the first argument called name in url: the text between
\* '&name=' and the next '&', or the end of the URL
ArgValue(url, name) ==
    LET key == <<"&">> \o name \o <<"=">>
        at == CHOOSE i \in Occurrences(url, key) : \A j \in Occurrences(url, key) : i <= j
        from == at + Len(key)
        ends == {i \in from..Len(url) : url[i] = "&"}
        to == IF ends = {} THEN Len(url) + 1
              ELSE CHOOSE i \in ends : \A j \in ends : i <= j
    IN  SubSeq(url, from, to - 1)

\* the URL of the query as a step leaves it
URLAfter == QueryURL(_baseurl', _param', _svctype', _preds', _kw', _orKw')

\* C1, as stated: on every keyword list of a query, addkeywords(k) followed
\* by removekeywords(k) succeeds and gives back the same list, in order.
C1_RoundTripOrdered ==
    HasQuery =>
        \A k \in TermInputs.phrases :
            LET r == removekeywords(addkeywords(_kw, Str(k)), Str(k))
            IN  r.raised = "None" /\ r.kw = _kw

\* C1, amended: addkeywords(k) followed by removekeywords(k) succeeds and
\* gives back a list holding every phrase as many times as before; the list
\* is the same sequence whenever k was not in it before the two calls.
C1_RoundTrip ==
    HasQuery =>
        \A k \in TermInputs.phrases :
            LET r == removekeywords(addkeywords(_kw, Str(k)), Str(k))
            IN  /\ r.raised = "None"
                /\ \A x \in TermInputs.phrases : Count(r.kw, x) = Count(_kw, x)
                /\ ~InList(_kw, k) => r.kw = _kw

\* a removal has left a list in which a phrase is followed by another one:
\* adding that phrase and removing it again moves it to the end
C1_Witness ==
    /\ last = "removekeywords"
    /\ raised = "None"
    /\ Len(_kw) = 2
    /\ _kw[1] # _kw[2]

\* C2: assigning an invalid string to servicetype or to waveband raises
\* ValueError and leaves the stored value as it was.
C2_InvalidServiceTypes == {<<>>, <<"x">>, <<"x","x">>}
C2_InvalidWavebands == {<<>>, <<"x">>, <<"I","r">>}
C2_InvalidValuesRejected ==
    [][/\ \A v \in C2_InvalidServiceTypes :
              SetServicetype(v) => raised' = "ValueError" /\ _svctype' = _svctype
       /\ \A b \in C2_InvalidWavebands :
              SetWaveband(b) => raised' = "ValueError" /\ _param' = _param]_vars

\* C3: a query made by a service submits to the base URL of that service:
\* the URL of createQuery's query, and the one search() fetches, start with
\* the service's slash-terminated base URL and the service name.
C3_ServicePrefix == service_baseurl \o <<"V","O","T","C","a","p","B","a","n","d","P","r","e","d","O","p","t","?","V","O","T","S","t","y","l","e","O","p","t","i","o","n","=","2">>
C3_SubmitsToServiceBaseurl ==
    /\ (last = "createQuery" /\ raised = "None") => startswith(getQueryURL, C3_ServicePrefix)
    /\ (last = "search" /\ raised = "None") => startswith(returned, C3_ServicePrefix)

\* C4: servicetype accepts each canonical capability name, and the URL then
\* carries capability=<that name>.
C4_CanonicalNames ==
    {<<"C","o","n","e","S","e","a","r","c","h">>, <<"S","i","m","p","l","e","I","m","a","g","e","A","c","c","e","s","s">>, <<"S","i","m","p","l","e","S","p","e","c","t","r","a","l","A","c","c","e","s","s">>, <<"T","a","b","l","e","A","c","c","e","s","s">>}
C4_CanonicalNamesAccepted ==
    [][\A n \in C4_CanonicalNames :
           SetServicetype(n) =>
               raised' = "None" /\ ArgValue(URLAfter, <<"c","a","p","a","b","i","l","i","t","y">>) = n]_vars

\* C5: 'table', 'tap' and 'database' are synonyms: after servicetype is set
\* to one of them, the URL carries the capability that setting it to any
\* other of them gives.
C5_TableNames == {<<"t","a","b","l","e">>, <<"t","a","p">>, <<"d","a","t","a","b","a","s","e">>}
C5_TableSynonyms ==
    [][\A a \in C5_TableNames :
           SetServicetype(a) =>
               /\ raised' = "None"
               /\ \A b \in C5_TableNames :
                      ArgValue(URLAfter, <<"c","a","p","a","b","i","l","i","t","y">>) =
                          ArgValue(QueryURL(_baseurl, _param,
                                       servicetype_setter(_svctype, b).svctype,
                                       _preds, _kw, _orKw),
                                   <<"c","a","p","a","b","i","l","i","t","y">>)]_vars

\* C6: getvalue(name, index) on a row of the table returns, for a
\* multi-valued column, the cell without one leading and one trailing '#',
\* split on '#', whatever the cell; and the cell itself for another column.
C6_MultiValued == {"waveband", "subject", "type", "contentLevel"}
C6_Decode(cell) ==
    LET a == IF cell # <<>> /\ cell[1] = "#" THEN Tail(cell) ELSE cell
        b == IF a # <<>> /\ a[Len(a)] = "#" THEN SubSeq(a, 1, Len(a) - 1) ELSE a
    IN  split(b, "#")
C6_GetValueDecodes ==
    [][\A n \in Columns, i \in 0..(Len(votable) - 1) :
           GetValue(n, i) =>
               /\ raised' = "None"
               /\ returned' = IF n \in C6_MultiValued
                              THEN C6_Decode(votable[i + 1][n])
                              ELSE votable[i + 1][n]]_vars

\* C7: the stored servicetype is unset or a key of the synonym table, and
\* the stored waveband is unset or one of the eight waveband names, after
\* any sequence of operations of the query, failing ones included.
C7_Wavebands ==
    {<<"R","a","d","i","o">>, <<"M","i","l","l","i","m","e","t","e","r">>, <<"I","n","f","r","a","r","e","d">>, <<"O","p","t","i","c","a","l">>, <<"U","V">>, <<"E","U","V">>,
     <<"X","-","r","a","y">>, <<"G","a","m","m","a","-","r","a","y">>}
C7_Vocabulary ==
    /\ _svctype = None \/ _svctype \in DOMAIN ALLOWED_CAPS
    /\ getparam(_param, <<"w","a","v","e","b","a","n","d">>) \in {None} \cup C7_Wavebands

\* a setter has just failed on a query whose servicetype and waveband are set
C7_Witness ==
    /\ last \in {"servicetype.setter", "waveband.setter"}
    /\ raised # "None"
    /\ _svctype # None
    /\ getparam(_param, <<"w","a","v","e","b","a","n","d">>) # None

\* C8: the URL getQueryURL() returns has exactly one capability argument;
\* its value is the synonym table's value for the stored servicetype, and
\* is empty when no servicetype is stored.
C8_Examples ==
    { << <<"s","c","s">>, <<"C","o","n","e","S","e","a","r","c","h">> >>, << <<"c","a","t","a","l","o","g">>, <<"C","o","n","e","S","e","a","r","c","h">> >>,
      << <<"c","o","n","e","s","e","a","r","c","h">>, <<"C","o","n","e","S","e","a","r","c","h">> >>, << <<"i","m","a","g","e">>, <<"S","i","m","p","l","e","I","m","a","g","e","A","c","c","e","s","s">> >>,
      << <<"s","i","a">>, <<"S","i","m","p","l","e","I","m","a","g","e","A","c","c","e","s","s">> >>, << <<"t","a","p">>, <<"T","a","b","l","e","A","c","c","e","s","s">> >>,
      << <<"d","a","t","a","b","a","s","e">>, <<"T","a","b","l","e","A","c","c","e","s","s">> >> }
C8_CapabilityArgument ==
    last = "getQueryURL" =>
        /\ Cardinality(Occurrences(returned, <<"&","c","a","p","a","b","i","l","i","t","y","=">>)) = 1
        /\ ArgValue(returned, <<"c","a","p","a","b","i","l","i","t","y">>) =
               IF _svctype = None THEN <<>> ELSE ALLOWED_CAPS[_svctype]
        /\ \A e \in C8_Examples :
               _svctype = e[1] => ArgValue(returned, <<"c","a","p","a","b","i","l","i","t","y">>) = e[2]

\* the URL of a query with servicetype 'scs' and a predicate
C8_Witness ==
    /\ last = "getQueryURL"
    /\ _svctype = <<"s","c","s">>
    /\ _preds # <<>>

\* C9: the URL ends with '&predicate=1' exactly when the query has no
\* keywords and no predicates; otherwise it ends with '&predicate=' and the
\* URL-encoding of the parenthesized terms joined by ' AND ': the
\* predicates in the order added, then the keyword predicate if there are
\* keywords.
RECURSIVE C9_JoinAnd(_)
C9_JoinAnd(terms) ==
    IF Len(terms) = 1 THEN <<"(">> \o terms[1] \o <<")">>
    ELSE <<"(">> \o Head(terms) \o <<")">> \o <<" ","A","N","D"," ">> \o C9_JoinAnd(Tail(terms))
C9_PredicateArgument ==
    last = "getQueryURL" =>
        LET terms == IF Len(_kw) = 0 THEN _preds
                     ELSE _preds \o <<keywords_to_predicate(_kw, _orKw)>>
        IN  /\ endswith(returned, <<"&","p","r","e","d","i","c","a","t","e","=","1">>) <=> (Len(_kw) = 0 /\ Len(_preds) = 0)
            /\ Len(terms) > 0 =>
                   endswith(returned, <<"&","p","r","e","d","i","c","a","t","e","=">> \o quote_plus(C9_JoinAnd(terms)))

\* the URL of a query with two different predicates and a keyword
C9_Witness ==
    /\ last = "getQueryURL"
    /\ Len(_preds) = 2
    /\ _preds[1] # _preds[2]
    /\ Len(_kw) = 1

\* C10: the keyword predicate of the URL is, before URL-encoding, one
\* parenthesized group per keyword in list order, each the OR of
\* "<col> LIKE '%<keyword>%'" over the eight text columns, the groups
\* joined by OR in OR mode and by AND in AND mode, within one outer pair of
\* parentheses.
C10_TextColumns ==
    << <<"T","i","t","l","e">>, <<"S","h","o","r","t","N","a","m","e">>, <<"I","d","e","n","t","i","f","i","e","r">>, <<"[","c","o","n","t","e","n","t","/","s","u","b","j","e","c","t","]">>,
       <<"[","c","u","r","a","t","i","o","n","/","p","u","b","l","i","s","h","e","r","]">>, <<"[","c","o","n","t","e","n","t","/","d","e","s","c","r","i","p","t","i","o","n","]">>, <<"[","@","x","s","i","_","t","y","p","e","]">>,
       <<"[","c","a","p","a","b","i","l","i","t","y","/","@","x","s","i","_","t","y","p","e","]">> >>
RECURSIVE C10_Group(_, _)
C10_Group(cols, kw) ==
    LET test == Head(cols) \o <<" ","L","I","K","E"," ","'","%">> \o kw \o <<"%","'">>
    IN  IF Len(cols) = 1 THEN test
        ELSE test \o <<" ","O","R"," ">> \o C10_Group(Tail(cols), kw)
RECURSIVE C10_Groups(_, _)
C10_Groups(kws, op) ==
    LET group == <<"(">> \o C10_Group(C10_TextColumns, Head(kws)) \o <<")">>
    IN  IF Len(kws) = 1 THEN group
        ELSE group \o op \o C10_Groups(Tail(kws), op)
C10_KeywordPredicateForm ==
    (last = "getQueryURL" /\ Len(_kw) > 0) =>
        LET op == IF Truthy(_orKw) THEN <<" ","O","R"," ">> ELSE <<" ","A","N","D"," ">>
        IN  endswith(returned, quote_plus(<<"(">> \o C10_Groups(_kw, op) \o <<")">>))

\* the URL of a query in AND mode with two different keywords
C10_Witness ==
    /\ last = "getQueryURL"
    /\ Len(_kw) = 2
    /\ _kw[1] # _kw[2]
    /\ _orKw = False

\* C11: getQueryURL() and execute() leave the keyword list, the OR/AND
\* mode, the servicetype, the stored parameters (the waveband), the base URL
\* and the predicate list as they were, and a rendering that follows a
\* rendering returns the same URL.
C11_RenderingHasNoEffect ==
    [][/\ (GetQueryURL \/ \E o \in Outcomes : Execute(o)) => UNCHANGED query_vars
       /\ (last = "getQueryURL" /\ GetQueryURL) => returned' = returned]_vars

\* a query with keywords and a predicate has been rendered or executed
C11_Witness ==
    /\ last \in {"getQueryURL", "execute"}
    /\ raised = "None"
    /\ Len(_kw) > 0
    /\ Len(_preds) > 0

\* C12: a removekeywords that fails leaves the keyword list as it was
\* before the call.
C12_FailedRemovalAtomic ==
    [][\A k \in KeywordArgs(TermInputs.phrases) :
           (RemoveKeywords(k) /\ raised' # "None") => _kw' = _kw]_vars

====
